---- MODULE Spec2Model ----
(***************************************************************************)
(* Model of scripts/download_fonts.py (Klyph): the CSS @font-face          *)
(* downloader that stores font binaries under content-hash names and       *)
(* emits Kotlin font-provider bindings.                                    *)
(*                                                                         *)
(* Strings are sequences of one-character strings.  Python's None is the   *)
(* value None below, distinct from every string.                           *)
(***************************************************************************)
EXTENDS Integers, Sequences, FiniteSets, TLC

VARIABLES
    \* ---- inputs of main, fixed over a behaviour (same inputs on a re-run)
    faces,          \* parse_font_faces(css_text): the props dict of each block
    net,            \* what a GET of each resolved font URL returns
    \* ---- state of the current run of main
    pc,             \* position of main: start, loop, done, failed
    i,              \* index of the face the for loop is at
    descriptors,    \* the descriptors list
    fs,             \* files of out_dir: name -> bytes
    kotlin_file,    \* content of the file at args.kotlin_out (None: no file)
    stdout,         \* lines printed by the run
    \* ---- observation of the run
    dir0,           \* files of out_dir when the current run started
    fetches,        \* GETs issued by the current run, in order
    writes,         \* write_bytes calls of the current run, in order
    kotlin_written, \* the current run has written args.kotlin_out
    run,            \* number of the current run
    prev,           \* how the previous run ended: none, done, failed
    \* ---- one call of a helper function
    fn,             \* the helper called ("none" before the call)
    arg,            \* its argument
    res             \* its return value

vars == <<faces, net, pc, i, descriptors, fs, kotlin_file, stdout, dir0,
          fetches, writes, kotlin_written, run, prev, fn, arg, res>>

mainVars == <<faces, net, pc, i, descriptors, fs, kotlin_file, stdout, dir0,
              fetches, writes, kotlin_written, run, prev>>

callVars == <<fn, arg, res>>

-----------------------------------------------------------------------------
(* Characters and Python's str methods                                     *)

None == <<"None">>

DQ == "\""

SQ == "'"

Digits == {"0", "1", "2", "3", "4", "5", "6", "7", "8", "9"}

LowerSeq == <<"a", "b", "c", "d", "e", "f", "g", "h", "i", "j", "k", "l", "m",
              "n", "o", "p", "q", "r", "s", "t", "u", "v", "w", "x", "y", "z">>

UpperSeq == <<"A", "B", "C", "D", "E", "F", "G", "H", "I", "J", "K", "L", "M",
              "N", "O", "P", "Q", "R", "S", "T", "U", "V", "W", "X", "Y", "Z">>

Letters == {LowerSeq[k] : k \in 1..26} \cup {UpperSeq[k] : k \in 1..26}

\* str.strip() with no argument removes these
Whitespace == {" ", "\t", "\n", "\r", "\f"}

\* the class [0-9A-Za-z]
IsAlnum(c) == c \in Digits \cup Letters

\* the class [0-9A-Za-z_]
IsIdentChar(c) == IsAlnum(c) \/ c = "_"

\* str.isalpha() of one character
IsAlpha(c) == c \in Letters

UpperChar(c) ==
    IF \E k \in 1..26 : LowerSeq[k] = c
    THEN UpperSeq[CHOOSE k \in 1..26 : LowerSeq[k] = c]
    ELSE c

LowerChar(c) ==
    IF \E k \in 1..26 : UpperSeq[k] = c
    THEN LowerSeq[CHOOSE k \in 1..26 : UpperSeq[k] = c]
    ELSE c

\* str.upper()
Upper(s) == [k \in 1..Len(s) |-> UpperChar(s[k])]

\* str.lower()
Lower(s) == [k \in 1..Len(s) |-> LowerChar(s[k])]

MinOf(S) == CHOOSE x \in S : \A y \in S : x <= y

MaxOf(S) == CHOOSE x \in S : \A y \in S : y <= x

\* str.strip()
Strip(s) ==
    LET keep == {k \in 1..Len(s) : s[k] \notin Whitespace}
    IN  IF keep = {} THEN <<>> ELSE SubSeq(s, MinOf(keep), MaxOf(keep))

\* str.startswith / str.endswith with a one-character argument
StartsWith(s, c) == Len(s) > 0 /\ s[1] = c

EndsWith(s, c) == Len(s) > 0 /\ s[Len(s)] = c

\* Python truthiness of a str-or-None value: `not value`
Falsy(value) == value = None \/ value = <<>>

-----------------------------------------------------------------------------
(* Helper functions of the script                                          *)

clean_value(value) ==
    LET v == Strip(value)
    IN  IF (StartsWith(v, DQ) /\ EndsWith(v, DQ))
           \/ (StartsWith(v, SQ) /\ EndsWith(v, SQ))
        THEN SubSeq(v, 2, Len(v) - 1)     \* value[1:-1]
        ELSE v

\* URL_RE = url\(([^)]+)\) with re.IGNORECASE: a match starts at k when
\* s[k..k+3] is "url(" in any case and a ")" follows at least one other char.
UrlOpenAt(s, k) ==
    /\ k + 3 <= Len(s)
    /\ Lower(SubSeq(s, k, k + 3)) = <<"u", "r", "l", "(">>

UrlCloseOf(s, k) ==
    LET closes == {j \in (k + 4)..Len(s) : s[j] = ")"}
    IN  IF closes = {} THEN 0 ELSE MinOf(closes)

UrlMatchAt(s, k) == UrlOpenAt(s, k) /\ UrlCloseOf(s, k) > k + 4

\* pick_url that takes the whole src value when it holds no url(...) (a fault)
pick_url_raw(src_value) ==
    IF Falsy(src_value) THEN None
    ELSE LET starts == {k \in 1..Len(src_value) : UrlMatchAt(src_value, k)}
         IN  IF starts = {} THEN clean_value(src_value)
             ELSE LET k == MinOf(starts)
                  IN  clean_value(SubSeq(src_value, k + 4,
                                         UrlCloseOf(src_value, k) - 1))

pick_url(src_value) ==
    IF Falsy(src_value) THEN None
    ELSE LET starts == {k \in 1..Len(src_value) : UrlMatchAt(src_value, k)}
         IN  IF starts = {} THEN None
             ELSE LET k == MinOf(starts)       \* urls[0]
                  IN  clean_value(SubSeq(src_value, k + 4,
                                         UrlCloseOf(src_value, k) - 1))

Normal == <<"n", "o", "r", "m", "a", "l">>

\* parse_weight without the second strip (a fault)
parse_weight_nostrip(value) ==
    IF Falsy(value) THEN Normal ELSE Lower(clean_value(value))

parse_weight(value) ==
    IF Falsy(value) THEN Normal ELSE Lower(Strip(clean_value(value)))

parse_style(value) ==
    IF Falsy(value) THEN Normal ELSE Lower(Strip(clean_value(value)))

parse_unicode_ranges(value) ==
    IF Falsy(value) THEN <<>> ELSE Strip(clean_value(value))

\* to_valid_identifier without the re.sub (a fault)
to_valid_identifier_nosub(name) ==
    IF name = <<>> \/ ~(IsAlpha(name[1]) \/ name[1] = "_")
    THEN <<"_">> \o name
    ELSE name

to_valid_identifier(name) ==
    LET safe == [k \in 1..Len(name) |->
                    IF IsIdentChar(name[k]) THEN name[k] ELSE "_"]
    IN  IF safe = <<>> \/ ~(IsAlpha(safe[1]) \/ safe[1] = "_")
        THEN <<"_">> \o safe
        ELSE safe

\* re.split(r"[^0-9A-Za-z]+", name): the pieces between the runs of
\* separators, empty pieces at the ends included
RECURSIVE re_split(_, _, _, _)
re_split(name, k, parts, cur) ==
    IF k > Len(name) THEN Append(parts, cur)
    ELSE IF IsAlnum(name[k]) THEN re_split(name, k + 1, parts, Append(cur, name[k]))
    ELSE IF k > 1 /\ ~IsAlnum(name[k - 1]) THEN re_split(name, k + 1, parts, cur)
    ELSE re_split(name, k + 1, Append(parts, cur), <<>>)

RECURSIVE Join(_)
Join(parts) == IF parts = <<>> THEN <<>> ELSE Head(parts) \o Join(Tail(parts))

NonEmpty(p) == p # <<>>

\* p[:1].upper() + p[1:]
Capitalize(p) == Upper(SubSeq(p, 1, 1)) \o SubSeq(p, 2, Len(p))

\* to_pascal_case that joins the fragments as they are (a fault)
to_pascal_case_nocap(name) ==
    LET parts == SelectSeq(re_split(name, 1, <<>>, <<>>), NonEmpty)
    IN  IF parts = <<>> THEN <<"_">>
        ELSE to_valid_identifier(Join(parts))

to_pascal_case(name) ==
    LET parts == SelectSeq(re_split(name, 1, <<>>, <<>>), NonEmpty)
    IN  IF parts = <<>> THEN <<"_">>
        ELSE to_valid_identifier(
                 Join([k \in 1..Len(parts) |-> Capitalize(parts[k])]))

\* main, lines 156-158: the resource name of a hash string
ResourceName(h) ==
    LET resource_name == to_valid_identifier(h)
    IN  IF ~StartsWith(resource_name, "_")
        THEN <<"_">> \o resource_name
        ELSE resource_name

-----------------------------------------------------------------------------
(* One call of a helper on an argument drawn from the bounded strings      *)

MaxLen == 3

StrAlphabet == {" ", DQ, SQ, "a", "B", "2", "_", "-"}

StrsUpTo(n) == UNION {[1..m -> StrAlphabet] : m \in 0..n}

ExampleStrs ==
    { <<"O", "p", "e", "n", " ", "S", "a", "n", "s">>,
      <<"m", "y", "-", "f", "o", "n", "t", "_", "2">>,
      <<DQ, "A", "r", "i", "a", "l", DQ>>,
      <<SQ, "A", "r", "i", "a", "l", SQ>>,
      <<"A", "r", "i", "a", "l">>,
      <<DQ, "A", "r", SQ, "i", "a", "l", DQ>>,
      <<" ", DQ, " ", "B", "o", "l", "d", " ", DQ, " ">> }

InitCall ==
    /\ arg \in StrsUpTo(MaxLen) \cup ExampleStrs \cup {None}
    /\ fn = "none"
    /\ res = None
    /\ faces = <<>>
    /\ net = <<>>
    /\ pc = "idle"
    /\ i = 0
    /\ descriptors = <<>>
    /\ fs = <<>>
    /\ kotlin_file = None
    /\ stdout = <<>>
    /\ dir0 = <<>>
    /\ fetches = <<>>
    /\ writes = <<>>
    /\ kotlin_written = FALSE
    /\ run = 0
    /\ prev = "none"

Call_clean_value ==
    /\ fn = "none" /\ arg # None
    /\ fn' = "clean_value"
    /\ res' = clean_value(arg)
    /\ UNCHANGED <<arg, mainVars>>

Call_to_pascal_case ==
    /\ fn = "none" /\ arg # None
    /\ fn' = "to_pascal_case"
    /\ res' = to_pascal_case(arg)
    /\ UNCHANGED <<arg, mainVars>>

Call_resource_name ==
    /\ fn = "none" /\ arg # None
    /\ fn' = "resource_name"
    /\ res' = ResourceName(arg)
    /\ UNCHANGED <<arg, mainVars>>

Call_parse_weight ==
    /\ fn = "none"
    /\ fn' = "parse_weight"
    /\ res' = parse_weight(arg)
    /\ UNCHANGED <<arg, mainVars>>

NextCall ==
    \/ Call_clean_value
    \/ Call_to_pascal_case
    \/ Call_resource_name
    \/ Call_parse_weight

SpecCall == InitCall /\ [][NextCall]_vars

-----------------------------------------------------------------------------
(* main: inputs                                                            *)

\* args.css_url
css_url == <<"h", "t", "t", "p", ":", "/", "/", "h", "/", "f", ".", "c", "s", "s">>

\* urllib.parse.urljoin(css_url, font_url) for a reference that is a bare
\* relative file name: the base up to its last "/" followed by the reference
urljoin(base, ref) ==
    LET slashes == {k \in 1..Len(base) : base[k] = "/"}
    IN  IF slashes = {} THEN ref ELSE SubSeq(base, 1, MaxOf(slashes)) \o ref

\* Path(urllib.parse.urlparse(font_url).path).suffix for a URL without query
\* or fragment: from the last "." of the last path component, unless that
\* dot is its first or its last character
PathSuffix(url) ==
    LET slashes == {k \in 1..Len(url) : url[k] = "/"}
        first   == IF slashes = {} THEN 1 ELSE MaxOf(slashes) + 1
        dots    == {k \in first..Len(url) : url[k] = "."}
    IN  IF dots = {} \/ MaxOf(dots) = first \/ MaxOf(dots) = Len(url)
        THEN <<>>
        ELSE SubSeq(url, MaxOf(dots), Len(url))

DefaultExt == <<".", "w", "o", "f", "f", "2">>

\* font binaries served by the network: one-byte bodies
Data == {<<0>>, <<1>>}

\* sha1_hex: hashlib.sha1(data).hexdigest() of the bodies above
sha1_hex(data) ==
    IF data = <<0>>
    THEN <<"5", "b", "a", "9", "3", "c", "9", "d", "b", "0",
         "c", "f", "f", "9", "3", "f", "5", "2", "b", "5",
         "2", "1", "d", "7", "4", "2", "0", "e", "4", "3",
         "f", "6", "e", "d", "a", "2", "7", "8", "4", "f">>
    ELSE <<"b", "f", "8", "b", "4", "5", "3", "0", "d", "8",
         "d", "2", "4", "6", "d", "d", "7", "4", "a", "c",
         "5", "3", "a", "1", "3", "4", "7", "1", "b", "b",
         "a", "1", "7", "9", "4", "1", "d", "f", "f", "7">>

Unknown == <<"U", "n", "k", "n", "o", "w", "n">>

\* a props dict of parse_font_faces; a key the block lacks holds None
Props(src, family, weight, style, ranges) ==
    [src |-> src, family |-> family, weight |-> weight, style |-> style,
     ranges |-> ranges]

\* face.get(key) and face.get(key, default)
Get(face, key) == face[key]

GetOr(face, key, default) == IF face[key] = None THEN default ELSE face[key]

-----------------------------------------------------------------------------
(* main: one run, statement by statement                                   *)

MaxFaces == 2

MaxRuns == 2

MaxFacesOneRun == 3

\* a fetch, as the observation log records it
Fetched(url, ok) == [url |-> url, ok |-> ok]

\* target.exists() that never sees the file (a fault)
TargetExistsNever(dir, filename) == FALSE

\* target.exists()
TargetExists(dir, filename) == filename \in DOMAIN dir

\* target.write_bytes(data)
WriteBytes(dir, filename, data) ==
    [n \in DOMAIN dir \cup {filename} |->
        IF n = filename THEN data ELSE dir[n]]

\* a urlopen error that the loop swallows, going on to the next face (a fault)
OnFetchErrorContinue(at) == "loop"

\* where main is after urlopen raises: nothing catches it, the run is over
OnFetchError(at) == "failed"

\* descriptors.append that drops a descriptor whose resource is listed (a fault)
AppendDescriptorOnce(descs, d) ==
    IF \E k \in 1..Len(descs) : descs[k].resource_name = d.resource_name
    THEN descs
    ELSE Append(descs, d)

\* descriptors.append({...})
AppendDescriptor(descs, d) == Append(descs, d)

\* the values main derives from the face at index k of a faces list
FontUrlOf(face) == urljoin(css_url, pick_url(Get(face, "src")))

ExtOf(font_url) ==
    IF PathSuffix(font_url) = <<>> THEN DefaultExt ELSE PathSuffix(font_url)

FileNameOf(font_url, data) == ResourceName(sha1_hex(data)) \o ExtOf(font_url)

DescriptorOf(face, data) ==
    [resource_name |-> ResourceName(sha1_hex(data)),
     family        |-> clean_value(GetOr(face, "family", Unknown)),
     weight        |-> parse_weight(Get(face, "weight")),
     style         |-> parse_style(Get(face, "style")),
     ranges        |-> parse_unicode_ranges(Get(face, "ranges"))]

\* families.setdefault(d["family"], []).append(d) that puts a new family
\* first (a fault)
SetDefaultAppendFront(families, d) ==
    IF \E k \in 1..Len(families) : families[k].family = d.family
    THEN LET k == CHOOSE k \in 1..Len(families) : families[k].family = d.family
         IN  [families EXCEPT ![k].items = Append(@, d)]
    ELSE <<[family |-> d.family, items |-> <<d>>]>> \o families

\* families.setdefault(d["family"], []).append(d); the dict keeps the order
\* in which its keys were inserted
SetDefaultAppend(families, d) ==
    IF \E k \in 1..Len(families) : families[k].family = d.family
    THEN LET k == CHOOSE k \in 1..Len(families) : families[k].family = d.family
         IN  [families EXCEPT ![k].items = Append(@, d)]
    ELSE Append(families, [family |-> d.family, items |-> <<d>>])

\* for d in descriptors: families.setdefault(...)
RECURSIVE GroupByFamily(_, _)
GroupByFamily(descs, families) ==
    IF descs = <<>> THEN families
    ELSE GroupByFamily(Tail(descs), SetDefaultAppend(families, Head(descs)))

\* the lines appended for one family: the declaration, one line per
\* descriptor, the closing parenthesis
FamilyLines(entry) ==
    <<[kind |-> "val", provider_name |-> to_pascal_case(entry.family)]>>
    \o [k \in 1..Len(entry.items) |->
            [kind     |-> "descriptor",
             resource |-> entry.items[k].resource_name,
             family   |-> entry.items[k].family,
             weight   |-> entry.items[k].weight,
             style    |-> entry.items[k].style,
             ranges   |-> entry.items[k].ranges]]
    \o <<[kind |-> "close"]>>

RECURSIVE AllFamilyLines(_)
AllFamilyLines(families) ==
    IF families = <<>> THEN <<>>
    ELSE FamilyLines(Head(families)) \o AllFamilyLines(Tail(families))

\* kotlin_lines with the default --kotlin-package: the imports, the families,
\* the last empty line
KotlinLines(descs) ==
    <<[kind |-> "imports"]>>
    \o AllFamilyLines(GroupByFamily(descs, <<>>))
    \o <<[kind |-> "blank"]>>

\* css_text = fetch_text(css_url) returns; parse_font_faces and mkdir follow
FetchCss ==
    /\ pc = "start"
    /\ fetches' = Append(fetches, Fetched(css_url, TRUE))
    /\ pc' = "loop"
    /\ i' = 1
    /\ UNCHANGED <<faces, net, descriptors, fs, kotlin_file, stdout, dir0,
                   writes, kotlin_written, run, prev, callVars>>

\* fetch_text(css_url) raises
FetchCssFails ==
    /\ pc = "start"
    /\ fetches' = Append(fetches, Fetched(css_url, FALSE))
    /\ pc' = OnFetchError("start")
    /\ i' = IF pc' = "loop" THEN 1 ELSE i
    /\ UNCHANGED <<faces, net, descriptors, fs, kotlin_file, stdout, dir0,
                   writes, kotlin_written, run, prev, callVars>>

\* a loop iteration that ends at `continue`
SkipFace ==
    /\ pc = "loop"
    /\ i <= Len(faces)
    /\ Falsy(pick_url(Get(faces[i], "src")))
    /\ i' = i + 1
    /\ UNCHANGED <<faces, net, pc, descriptors, fs, kotlin_file, stdout, dir0,
                   fetches, writes, kotlin_written, run, prev, callVars>>

\* a loop iteration in which fetch_bytes(font_url) raises
FetchFontFails ==
    /\ pc = "loop"
    /\ i <= Len(faces)
    /\ ~Falsy(pick_url(Get(faces[i], "src")))
    /\ fetches' = Append(fetches, Fetched(FontUrlOf(faces[i]), FALSE))
    /\ pc' = OnFetchError("loop")
    /\ i' = IF pc' = "loop" THEN i + 1 ELSE i
    /\ UNCHANGED <<faces, net, descriptors, fs, kotlin_file, stdout, dir0,
                   writes, kotlin_written, run, prev, callVars>>

\* a whole loop iteration: download, name, write unless present, describe
ProcessFace ==
    /\ pc = "loop"
    /\ i <= Len(faces)
    /\ ~Falsy(pick_url(Get(faces[i], "src")))
    /\ FontUrlOf(faces[i]) \in DOMAIN net      \* else only the GET's error
    /\ LET font_url == FontUrlOf(faces[i])
           data     == net[font_url]
           filename == FileNameOf(font_url, data)
       IN  /\ fetches' = Append(fetches, Fetched(font_url, TRUE))
           /\ IF ~TargetExists(fs, filename)
              THEN /\ fs' = WriteBytes(fs, filename, data)
                   /\ writes' = Append(writes, [filename |-> filename,
                                                data |-> data, face |-> i])
              ELSE UNCHANGED <<fs, writes>>
           /\ descriptors' = AppendDescriptor(descriptors,
                                              DescriptorOf(faces[i], data))
    /\ i' = i + 1
    /\ UNCHANGED <<faces, net, pc, kotlin_file, stdout, dir0, kotlin_written,
                   run, prev, callVars>>

\* after the loop: group, write the bindings file, print the summary
Emit ==
    /\ pc = "loop"
    /\ i > Len(faces)
    /\ kotlin_file' = KotlinLines(descriptors)
    /\ kotlin_written' = TRUE
    /\ stdout' = <<[line |-> "Downloaded", count |-> Len(descriptors)],
                   [line |-> "Wrote", count |-> 0]>>
    /\ pc' = "done"
    /\ UNCHANGED <<faces, net, i, descriptors, fs, dir0, fetches, writes,
                   run, prev, callVars>>

\* the tool is invoked again with the same arguments, on the same directory
Rerun ==
    /\ pc \in {"done", "failed"}
    /\ run < MaxRuns
    /\ run' = run + 1
    /\ prev' = pc
    /\ pc' = "start"
    /\ i' = 0
    /\ descriptors' = <<>>
    /\ stdout' = <<>>
    /\ dir0' = fs
    /\ fetches' = <<>>
    /\ writes' = <<>>
    /\ kotlin_written' = FALSE
    /\ UNCHANGED <<faces, net, fs, kotlin_file, callVars>>

Next ==
    \/ FetchCss
    \/ FetchCssFails
    \/ SkipFace
    \/ FetchFontFails
    \/ ProcessFace
    \/ Emit
    \/ Rerun

-----------------------------------------------------------------------------
(* Inputs of the runs                                                      *)

\* src values a block can hold
SrcA == <<"u", "r", "l", "(", "a", ".", "t", ")">>

SrcB == <<"u", "r", "l", "(", "\"", "b", ".", "t", "\"", ")", " ", "f", "o", "r", "m", "a", "t", "(", "\"", "w", "o", "f", "f", "2", "\"", ")">>

SrcC == <<"U", "R", "L", "(", "'", "c", "'", ")">>

SrcLocal == <<"l", "o", "c", "a", "l", "(", "x", ")">>

SrcEmptyUrl == <<"u", "r", "l", "(", "\"", "\"", ")">>

\* the resolved URLs of the sources above
FontUrls == {urljoin(css_url, pick_url(s)) : s \in {SrcA, SrcB, SrcC}}

\* a file of an earlier, different download under the name of body <<0>>,
\* and the file a completed earlier run left for body <<1>>
StaleFile == [filename |-> FileNameOf(urljoin(css_url, pick_url(SrcA)), <<0>>),
              data |-> <<7>>]

KeptFile == [filename |-> FileNameOf(urljoin(css_url, pick_url(SrcC)), <<1>>),
             data |-> <<1>>]

DirOf(files) ==
    [n \in {f.filename : f \in files} |->
        (CHOOSE f \in files : f.filename = n).data]

InitMain(FaceSet, maxFaces, Nets, Dirs) ==
    /\ faces \in UNION {[1..n -> FaceSet] : n \in 0..maxFaces}
    /\ net \in Nets
    /\ fs \in Dirs
    /\ dir0 = fs
    /\ pc = "start"
    /\ i = 0
    /\ descriptors = <<>>
    /\ kotlin_file = None
    /\ stdout = <<>>
    /\ fetches = <<>>
    /\ writes = <<>>
    /\ kotlin_written = FALSE
    /\ run = 1
    /\ prev = "none"
    /\ fn = "none"
    /\ arg = None
    /\ res = None

\* content-addressed storage: every body behind every URL, any earlier files
Init ==
    InitMain({Props(s, None, None, None, None) :
                  s \in {None, SrcA, SrcB, SrcC}},
             MaxFaces,
             [FontUrls -> Data],
             {DirOf(files) : files \in SUBSET {StaleFile, KeptFile}})

Spec == Init /\ [][Next]_vars

\* one invocation of the tool
NextOneRun ==
    \/ FetchCss
    \/ FetchCssFails
    \/ SkipFace
    \/ FetchFontFails
    \/ ProcessFace
    \/ Emit

OneNet == [u \in FontUrls |-> IF u = urljoin(css_url, pick_url(SrcB))
                              THEN <<1>> ELSE <<0>>]

EmptyDir == DirOf({})

\* font-family values a block can hold
FamOpenSansQuoted == <<"\"", "O", "p", "e", "n", " ", "S", "a", "n", "s", "\"">>

FamOpenSansJoined == <<"O", "p", "e", "n", "S", "a", "n", "s">>

W700 == <<"7", "0", "0">>

WBoldPadded == <<"\"", " ", "B", "o", "l", "d", " ", "\"">>

WEmptyQuotes == <<DQ, DQ>>

StItalic == <<"'", "I", "t", "a", "l", "i", "c", "'">>

\* src values of every shape
InitSkip ==
    InitMain({Props(s, None, None, None, None) :
                  s \in {None, <<>>, SrcLocal, SrcEmptyUrl, SrcA, SrcB}},
             MaxFacesOneRun, {OneNet}, {EmptyDir})

SpecSkip == InitSkip /\ [][NextOneRun]_vars

\* families that interleave, descriptors told apart by their resource
InitGroup ==
    InitMain({Props(s, f, None, None, None) :
                  s \in {SrcA, SrcB},
                  f \in {None, FamOpenSansQuoted, FamOpenSansJoined}}
             \cup {Props(SrcLocal, None, None, None, None)},
             MaxFacesOneRun, {OneNet}, {EmptyDir})

SpecGroup == InitGroup /\ [][NextOneRun]_vars

\* font-weight and font-style values of every shape
InitProps ==
    InitMain({Props(SrcA, None, w, st, None) :
                  w \in {None, <<>>, WEmptyQuotes, W700, WBoldPadded, <<DQ>>},
                  st \in {None, <<>>, StItalic}}
             \cup {Props(SrcLocal, None, None, None, None)},
             MaxFaces, {OneNet}, {EmptyDir})

SpecProps == InitProps /\ [][NextOneRun]_vars

-----------------------------------------------------------------------------
(* Properties of the helper functions, over SpecCall                       *)

\* C6: for any string given as the hash, the derived resource name begins
\* with "_", holds only characters of [0-9A-Za-z_], and deriving a resource
\* name from it again returns it unchanged.
C6_ResourceNameSafe ==
    fn = "resource_name" =>
        /\ StartsWith(res, "_")
        /\ \A k \in 1..Len(res) : IsIdentChar(res[k])
        /\ ResourceName(res) = res

C6_Witness ==
    /\ fn = "resource_name"
    /\ Len(arg) >= 2
    /\ arg[1] \in Digits
    /\ \E k \in 1..Len(arg) : ~IsIdentChar(arg[k])

\* what C7 says of clean_value: strip, then drop one enclosing pair of equal
\* straight quotes, and nothing else
IsQuote(c) == c = DQ \/ c = SQ

HasQuotePair(v) == Len(v) >= 2 /\ IsQuote(v[1]) /\ v[Len(v)] = v[1]

\* C7: clean_value strips surrounding whitespace and then removes exactly
\* one matching pair of enclosing straight quotes when both ends match; a
\* stripped string without an enclosing pair is returned unchanged.
C7_CleanValueRemovesOnePair ==
    fn = "clean_value" =>
        LET v == Strip(arg)
        IN  res = IF HasQuotePair(v) THEN SubSeq(v, 2, Len(v) - 1) ELSE v

\* the alphanumeric characters of name in order, each one that starts a
\* fragment in upper case
StartsFragment(name, k) == IsAlnum(name[k]) /\ (k = 1 \/ ~IsAlnum(name[k - 1]))

RECURSIVE PascalFrom(_, _)
PascalFrom(name, k) ==
    IF k > Len(name) THEN <<>>
    ELSE IF ~IsAlnum(name[k]) THEN PascalFrom(name, k + 1)
    ELSE <<IF StartsFragment(name, k) THEN UpperChar(name[k]) ELSE name[k]>>
         \o PascalFrom(name, k + 1)

IsIdentifier(s) ==
    /\ s # <<>>
    /\ \A k \in 1..Len(s) : IsIdentChar(s[k])
    /\ IsAlpha(s[1]) \/ s[1] = "_"

\* C8: to_pascal_case concatenates the fragments between runs of
\* non-alphanumeric characters, each with its first character in upper
\* case; no fragment gives "_"; the result is always an identifier (a "_"
\* is put before a leading digit); "Open Sans" gives OpenSans and
\* "my-font_2" gives MyFont2.
C8_PascalCase ==
    fn = "to_pascal_case" =>
        LET joined == PascalFrom(arg, 1)
        IN  /\ IsIdentifier(res)
            /\ joined = <<>> => res = <<"_">>
            /\ joined # <<>> /\ IsAlpha(joined[1]) => res = joined
            /\ joined # <<>> /\ ~IsAlpha(joined[1]) => res = <<"_">> \o joined
            /\ arg = <<"O", "p", "e", "n", " ", "S", "a", "n", "s">>
                   => res = <<"O", "p", "e", "n", "S", "a", "n", "s">>
            /\ arg = <<"m", "y", "-", "f", "o", "n", "t", "_", "2">>
                   => res = <<"M", "y", "F", "o", "n", "t", "2">>

C8_Witness ==
    /\ fn = "to_pascal_case"
    /\ Len(arg) >= 3
    /\ arg[1] \in Letters /\ ~IsAlnum(arg[2]) /\ arg[3] \in Letters
    /\ res = <<UpperChar(arg[1]), UpperChar(arg[3])>>

-----------------------------------------------------------------------------
(* Properties of a run of main                                             *)

\* a face has a usable src URL: its src holds a url(...) whose first
\* occurrence, stripped and unquoted, is not empty
HasUsableSrc(face) ==
    /\ face.src # None
    /\ \E k \in 1..Len(face.src) :
          /\ UrlMatchAt(face.src, k)
          /\ \A j \in 1..(k - 1) : ~UrlMatchAt(face.src, j)
          /\ clean_value(SubSeq(face.src, k + 4,
                                UrlCloseOf(face.src, k) - 1)) # <<>>

\* the indices up to n of the faces with a usable src, and the place of
\* face k's descriptor in the descriptors list
Usable(n) == {k \in 1..n : k <= Len(faces) /\ HasUsableSrc(faces[k])}

Rank(k) == Cardinality(Usable(k))

FaceAt(r) == CHOOSE k \in Usable(Len(faces)) : Rank(k) = r

BodyOf(k) == net[FontUrlOf(faces[k])]

FileOf(k) == FileNameOf(FontUrlOf(faces[k]), BodyOf(k))

WritesTo(names) ==
    Cardinality({k \in 1..Len(writes) : writes[k].filename \in names})

DescriptorLines(resource) ==
    {k \in 1..Len(kotlin_file) :
        /\ kotlin_file[k].kind = "descriptor"
        /\ kotlin_file[k].resource = resource}

SameBytesPairs ==
    {p \in Usable(Len(faces)) \X Usable(Len(faces)) :
        p[1] < p[2] /\ BodyOf(p[1]) = BodyOf(p[2])}

AbsentAtStart(a, b) ==
    Cardinality({n \in {FileOf(a), FileOf(b)} : n \notin DOMAIN dir0})

\* the statement of C1; exact: exactly one file is written for the pair
C1_With(exact) ==
    pc = "done" =>
        /\ Len(descriptors) = Cardinality(Usable(Len(faces)))
        /\ \A p \in SameBytesPairs :
              LET a == p[1]
                  b == p[2]
                  name == descriptors[Rank(a)].resource_name
              IN  /\ descriptors[Rank(b)].resource_name = name
                  /\ WritesTo({FileOf(a), FileOf(b)})
                       = IF exact THEN 1 ELSE AbsentAtStart(a, b)
                  /\ Rank(a) # Rank(b)
                  /\ Cardinality(DescriptorLines(name))
                       = Cardinality({c \in Usable(Len(faces)) :
                             ResourceName(sha1_hex(BodyOf(c))) = name})

\* C1 (as amended): two faces whose URLs serve identical bytes get the same
\* resourceName, and the run writes, for the two of them, one file per
\* distinct file name (resourceName + URL suffix) of theirs that was absent
\* from the output directory when the run started: one when the suffixes
\* agree and the file was absent, none when it was present, two when the
\* suffixes differ; two descriptors still appear in the bindings.
C1_SameBytesSameName == C1_With(FALSE)

\* C1 (as stated): ... and exactly one file is written for the two of them.
C1_ExactlyOneFile == C1_With(TRUE)

C1_Witness ==
    /\ pc = "done"
    /\ \E p \in SameBytesPairs :
          /\ FontUrlOf(faces[p[1]]) # FontUrlOf(faces[p[2]])
          /\ FileOf(p[1]) = FileOf(p[2])
          /\ WritesTo({FileOf(p[1])}) = 1
          /\ Len(descriptors) = 2

FailedFetches == {k \in 1..Len(fetches) : ~fetches[k].ok}

\* C3: a failed fetch (of the stylesheet or of a font) ends the run there:
\* it is the last fetch of the run (no retry, no later face fetched), no
\* file is written for the failing face or a later one, the bindings file
\* is not written and nothing is printed.
C3_FetchFailureIsFatal ==
    FailedFetches # {} =>
        /\ pc = "failed"
        /\ FailedFetches = {Len(fetches)}
        /\ \A k \in 1..Len(writes) : writes[k].face < i
        /\ Len(descriptors) = Rank(i - 1)
        /\ ~kotlin_written
        /\ stdout = <<>>

C3_Witness ==
    /\ pc = "failed"
    /\ i = 1
    /\ Len(fetches) = 2
    /\ Len(faces) >= 2
    /\ HasUsableSrc(faces[2])

\* the faces the loop has been through
Processed == IF pc = "start" THEN 0
             ELSE IF pc = "failed" THEN (IF i = 0 THEN 0 ELSE i - 1)
             ELSE IF i > Len(faces) THEN Len(faces) ELSE i - 1

FontFetches == SubSeq(fetches, 2, Len(fetches))

\* C4: a face whose src is absent, empty or without a usable url(...) is
\* skipped: no fetch, no file, no descriptor for it; the descriptors are
\* those of the faces with a usable src URL, in source order, and the
\* summary of a completed run prints their number.
C4_SkippedFaces ==
    /\ Len(descriptors) = Rank(Processed)
    /\ \A r \in 1..Len(descriptors) :
          descriptors[r] = DescriptorOf(faces[FaceAt(r)], BodyOf(FaceAt(r)))
    /\ Len(FontFetches) <= Cardinality(Usable(Len(faces)))
    /\ \A r \in 1..Len(FontFetches) :
          FontFetches[r].url = FontUrlOf(faces[FaceAt(r)])
    /\ \A k \in 1..Len(writes) : writes[k].face \in Usable(Len(faces))
    /\ pc = "done" =>
          /\ stdout[1].count = Cardinality(Usable(Len(faces)))
          /\ Len(descriptors) = stdout[1].count

C4_Witness ==
    /\ pc = "done"
    /\ Len(faces) = 3
    /\ faces[1].src = SrcB
    /\ faces[2].src \in {None, <<>>, SrcLocal, SrcEmptyUrl}
    /\ faces[3].src = SrcA
    /\ stdout[1].count = 2

\* the bindings file read back: the descriptor lines, the declaration each
\* stands under, and the declarations
IsDescriptorLine(line) == line.kind = "descriptor"

EmittedLines == {k \in 1..Len(kotlin_file) : kotlin_file[k].kind = "descriptor"}

ValLines == {k \in 1..Len(kotlin_file) : kotlin_file[k].kind = "val"}

ValOf(k) == MaxOf({v \in ValLines : v < k})

AsLine(d) ==
    [kind |-> "descriptor", resource |-> d.resource_name, family |-> d.family,
     weight |-> d.weight, style |-> d.style, ranges |-> d.ranges]

FamiliesOf(descs) == {descs[k].family : k \in 1..Len(descs)}

FirstSeen(f) == MinOf({k \in 1..Len(descriptors) : descriptors[k].family = f})

\* C5: the declarations partition the descriptors by family and keep the
\* order: every descriptor is emitted once, under the declaration of its
\* family; the lines of one family are its descriptors in list order; the
\* families come in the order of their first descriptor.
C5_GroupingKeepsOrder ==
    pc = "done" =>
        /\ Cardinality(EmittedLines) = Len(descriptors)
        /\ \A f \in FamiliesOf(descriptors) :
              LET HasFamily(x) == x.family = f
                  mine  == SelectSeq(descriptors, HasFamily)
                  lines == SelectSeq(SelectSeq(kotlin_file, IsDescriptorLine),
                                     HasFamily)
              IN  lines = [k \in 1..Len(mine) |-> AsLine(mine[k])]
        /\ \A v \in ValLines : v + 1 \in EmittedLines
        /\ \A k \in EmittedLines :
              /\ ValLines # {} /\ \E v \in ValLines : v < k
              /\ kotlin_file[ValOf(k)].provider_name
                   = to_pascal_case(kotlin_file[k].family)
        /\ \A k1, k2 \in EmittedLines :
              /\ ValOf(k1) = ValOf(k2)
                   <=> kotlin_file[k1].family = kotlin_file[k2].family
              /\ ValOf(k1) < ValOf(k2)
                   => FirstSeen(kotlin_file[k1].family)
                        < FirstSeen(kotlin_file[k2].family)

C5_Witness ==
    /\ pc = "done"
    /\ Len(descriptors) = 3
    /\ descriptors[1].family = descriptors[3].family
    /\ descriptors[1].family # descriptors[2].family
    /\ descriptors[1].resource_name # descriptors[3].resource_name
    /\ Cardinality(ValLines) = 2

\* C10: the bindings file never declares the same val name twice: two
\* different families never get the same to_pascal_case identifier.
C10_DistinctProviderNames ==
    pc = "done" =>
        \A v1, v2 \in ValLines :
            v1 # v2 =>
                kotlin_file[v1].provider_name # kotlin_file[v2].provider_name

Normalised(v, again) ==
    IF again THEN Lower(Strip(clean_value(v))) ELSE Lower(clean_value(v))

\* the statement of C9; again: the value is stripped again after its quotes
C9_With(again) ==
    /\ Len(descriptors) <= Cardinality(Usable(Len(faces)))
    /\ \A r \in 1..Len(descriptors) :
          LET face == faces[FaceAt(r)]
          IN  /\ descriptors[r].weight =
                   IF face.weight = None \/ face.weight = <<>>
                   THEN Normal ELSE Normalised(face.weight, again)
              /\ descriptors[r].style =
                   IF face.style = None \/ face.style = <<>>
                   THEN Normal ELSE Normalised(face.style, again)

====
